---- MODULE Spec2Model ----
(***************************************************************************)
(* Model of bib_replace.py: reconciliation of a local BibTeX file against  *)
(* DBLP.  An entry is a function from field names to values; a value is a  *)
(* string, kept as a sequence of one-character strings so that             *)
(* str.strip("{} ") can be computed character by character.                *)
(***************************************************************************)
EXTENDS Integers, Sequences, FiniteSets, TLC

\* ------------------------------------------------------------------ bounds
MaxEntries == 3
MaxLen == 3
MaxBusy == 2

\* ----------------------------------------------------------- string values
EmptyStr == <<>>
StripChars == {"{", "}", " "}
Chars == StripChars \cup {"a"}

RECURSIVE lstrip(_)
lstrip(s) ==
    IF Len(s) > 0 /\ Head(s) \in StripChars THEN lstrip(Tail(s)) ELSE s

RECURSIVE rstrip(_)
rstrip(s) ==
    IF Len(s) > 0 /\ s[Len(s)] \in StripChars
    THEN rstrip(SubSeq(s, 1, Len(s) - 1))
    ELSE s

\* faulty variant: only the braces are removed, spaces are kept
RECURSIVE strip_braces_only(_)
strip_braces_only(s) ==
    IF Len(s) > 0 /\ Head(s) \in {"{", "}"} THEN strip_braces_only(Tail(s))
    ELSE IF Len(s) > 0 /\ s[Len(s)] \in {"{", "}"}
         THEN strip_braces_only(SubSeq(s, 1, Len(s) - 1))
         ELSE s

\* str.strip("{} "): drop leading, then trailing, characters of the set
strip(s) == rstrip(lstrip(s))

\* ------------------------------------------------------------------ entries
EmptyDict == [k \in {} |-> EmptyStr]
REVERSED_KEYS == {"author", "booktitle", "doi", "title", "year", "ID", "ENTRYTYPE"}
ignored_keys == {"ID", "ENTRYTYPE"}

\* dict.get(key, default)
get(entry, key, default) == IF key \in DOMAIN entry THEN entry[key] ELSE default

\* `not title` for title = entry.get("title"): None or the empty string
no_title(entry) == "title" \notin DOMAIN entry \/ entry["title"] = EmptyStr

\* faulty variant: the remote record is stored with every field it came with
filter_nothing(new_entry) == new_entry

\* {k: new_entry[k] for k in REVERSED_KEYS if k in new_entry}
filter_keys(new_entry) ==
    [k \in (DOMAIN new_entry) \cap REVERSED_KEYS |-> new_entry[k]]

\* faulty variant: the remote record keeps its own ID
keep_remote_id(new_entry, entry_id) == new_entry

\* new_entry['ID'] = entry_id
keep_id(new_entry, entry_id) ==
    [k \in (DOMAIN new_entry) \cup {"ID"} |->
        IF k = "ID" THEN entry_id ELSE new_entry[k]]

\* faulty variant: the remote value is compared unstripped
compare_raw_new(old_entry, new_entry) ==
    LET keys == {k \in DOMAIN new_entry :
                   /\ k \notin ignored_keys
                   /\ strip(get(old_entry, k, EmptyStr)) # new_entry[k]}
    IN [k \in keys |->
          [old |-> get(old_entry, k, EmptyStr), new |-> new_entry[k],
           had |-> k \in DOMAIN old_entry]]

\* compare_entries: the fields of new_entry, ID and ENTRYTYPE aside, whose
\* stripped values differ; "had" is FALSE where the old value is None
compare_entries(old_entry, new_entry) ==
    LET keys == {k \in DOMAIN new_entry :
                   /\ k \notin ignored_keys
                   /\ strip(get(old_entry, k, EmptyStr)) # strip(new_entry[k])}
    IN [k \in keys |->
          [old |-> get(old_entry, k, EmptyStr), new |-> new_entry[k],
           had |-> k \in DOMAIN old_entry]]

\* ------------------------------------------------------------ remote service
\* What DBLP does with one title: `busy` search requests are answered
\* "429 Too Many Requests" before the search endpoint answers normally, then
\* `kind` says where the exchange ends and `rec` is the first parsed record.
FailKinds == {"neterr", "badjson", "nohits", "status", "parsefail", "empty"}

RemoteRecords ==
    { ("ID" :> <<"d", "b">>) @@ ("ENTRYTYPE" :> <<"p">>) @@ ("title" :> <<"a">>)
        @@ ("author" :> <<" ", "b", " ">>) @@ ("biburl" :> <<"u">>),
      ("ID" :> <<"d", "b">>) @@ ("ENTRYTYPE" :> <<"p">>) @@ ("title" :> <<" ", "a">>)
        @@ ("biburl" :> <<"u">>),
      ("ID" :> <<"d", "b">>) @@ ("ENTRYTYPE" :> <<"p">>) @@ ("title" :> <<"b">>)
        @@ ("author" :> <<"b">>) @@ ("year" :> <<"1">>) @@ ("biburl" :> <<"u">>) }

Responses ==
    {[kind |-> k, busy |-> 0, rec |-> EmptyDict] : k \in FailKinds}
    \cup {[kind |-> "ok", busy |-> b, rec |-> r] : b \in 0..MaxBusy, r \in RemoteRecords}

NoResponse == [kind |-> "none", busy |-> 0, rec |-> EmptyDict]

\* outcomes of a call: a returned value (None or a dict) or a raised exception
ReturnNone == [raised |-> FALSE, some |-> FALSE, rec |-> EmptyDict]
Return(d) == [raised |-> FALSE, some |-> TRUE, rec |-> d]
Raise == [raised |-> TRUE, some |-> FALSE, rec |-> EmptyDict]
NotCalled == [raised |-> FALSE, some |-> FALSE, rec |-> EmptyDict]

\* the body of the try block of query_dblp, run against one response
try_body(resp) ==
    IF resp.kind = "neterr" THEN Raise                 \* requests.get raises
    ELSE IF resp.busy > 0 THEN Raise                   \* 429 body: resp.json() raises
    ELSE IF resp.kind = "badjson" THEN Raise           \* resp.json() / data[...] raises
    ELSE IF resp.kind = "nohits" THEN ReturnNone       \* if not hits
    ELSE IF resp.kind = "status" THEN ReturnNone       \* status_code != 200
    ELSE IF resp.kind = "parsefail" THEN Raise         \* bibtexparser.loads raises
    ELSE IF resp.kind = "empty" THEN ReturnNone        \* parsed_bib.entries is empty
    ELSE Return(resp.rec)

\* faulty variant: no except clause, the exception leaves query_dblp
query_dblp_uncaught(resp) == try_body(resp)

\* query_dblp: one search request, one record request, every exception caught
query_dblp(resp) ==
    LET r == try_body(resp) IN IF r.raised THEN ReturnNone ELSE r

\* `if new_entry:` is false for None and for an empty dict
truthy(res) == res.some /\ DOMAIN res.rec # {}

\* ------------------------------------------------------------ the loop body
\* acc holds the accumulators of main(); origin records, for each appended
\* output entry, the position of the input entry it was produced from.
EmptyAcc ==
    [changed_ids |-> <<>>, unchanged_ids |-> <<>>, no_title_ids |-> <<>>,
     not_found_ids |-> <<>>, updated_entries |-> <<>>, origin |-> <<>>]

\* faulty variant: the not-found append is no longer under the else
iteration_no_else(acc, n, entry, res) ==
    LET entry_id == entry["ID"] IN
    IF no_title(entry)
    THEN [acc EXCEPT !.no_title_ids = Append(@, entry_id)]
    ELSE LET filtered == filter_keys(res.rec)
             diff == compare_entries(entry, filtered)
             new_entry == keep_id(filtered, entry_id)
             a1 == IF ~truthy(res) THEN acc
                   ELSE IF DOMAIN diff # {}
                   THEN [acc EXCEPT !.changed_ids = Append(@, entry_id),
                                    !.updated_entries = Append(@, new_entry),
                                    !.origin = Append(@, n)]
                   ELSE [acc EXCEPT !.unchanged_ids = Append(@, entry_id),
                                    !.updated_entries = Append(@, entry),
                                    !.origin = Append(@, n)]
         IN [a1 EXCEPT !.not_found_ids = Append(@, entry_id)]

\* faulty variant: an entry that matches DBLP is stored as the filtered remote record
iteration_emit_new(acc, n, entry, res) ==
    LET entry_id == entry["ID"] IN
    IF no_title(entry)
    THEN [acc EXCEPT !.no_title_ids = Append(@, entry_id)]
    ELSE IF truthy(res)
    THEN LET filtered == filter_keys(res.rec)
             diff == compare_entries(entry, filtered)
             new_entry == keep_id(filtered, entry_id)
         IN IF DOMAIN diff # {}
            THEN [acc EXCEPT !.changed_ids = Append(@, entry_id),
                             !.updated_entries = Append(@, new_entry),
                             !.origin = Append(@, n)]
            ELSE [acc EXCEPT !.unchanged_ids = Append(@, entry_id),
                             !.updated_entries = Append(@, new_entry),
                             !.origin = Append(@, n)]
    ELSE [acc EXCEPT !.not_found_ids = Append(@, entry_id)]

\* one pass of `for entry in old_entries`, res being what query_dblp returned
\* (it is not read when the entry has no title)
iteration(acc, n, entry, res) ==
    LET entry_id == entry["ID"] IN
    IF no_title(entry)
    THEN [acc EXCEPT !.no_title_ids = Append(@, entry_id)]
    ELSE IF truthy(res)
    THEN LET filtered == filter_keys(res.rec)
             diff == compare_entries(entry, filtered)
             new_entry == keep_id(filtered, entry_id)
         IN IF DOMAIN diff # {}
            THEN [acc EXCEPT !.changed_ids = Append(@, entry_id),
                             !.updated_entries = Append(@, new_entry),
                             !.origin = Append(@, n)]
            ELSE [acc EXCEPT !.unchanged_ids = Append(@, entry_id),
                             !.updated_entries = Append(@, entry),
                             !.origin = Append(@, n)]
    ELSE [acc EXCEPT !.not_found_ids = Append(@, entry_id)]

\* -------------------------------------------------------------------- state
VARIABLES
    run,              \* 1: first run of the script, 2: a run on the first run's output
    pc,               \* "loop", "done" (output file written) or "aborted"
    old_entries,      \* read_bib_file(BIB_FILE)
    i,                \* entries of old_entries the loop has processed
    updated_entries, changed_ids, unchanged_ids, no_title_ids, not_found_ids,
    output_file,      \* the entries dumped to OUTPUT_BIB_FILE
    dblp,             \* the response of the remote service to each title asked so far
    origin,           \* for each entry of updated_entries, its position in old_entries
    trace,            \* per processed entry: was query_dblp called, on what, with what result
    first,            \* the first run, as it ended
    c_old, c_new, c_diff, c_pc   \* one call of compare_entries on its own

main_vars ==
    <<run, pc, old_entries, i, updated_entries, changed_ids, unchanged_ids,
      no_title_ids, not_found_ids, output_file, dblp, origin, trace, first>>
cmp_vars == <<c_old, c_new, c_diff, c_pc>>
vars == <<main_vars, cmp_vars>>

\* ------------------------------------------------------------------- inputs
Digits == <<"1", "2", "3", "4", "5", "6", "7", "8", "9">>
LocalID(n) == <<"k", Digits[n]>>

\* entries of the input file, before their citation key is attached
LocalBodies ==
    { ("ENTRYTYPE" :> <<"m">>) @@ ("author" :> <<"b">>),
      ("ENTRYTYPE" :> <<"m">>) @@ ("title" :> EmptyStr),
      ("ENTRYTYPE" :> <<"m">>) @@ ("title" :> <<"a">>)
        @@ ("author" :> <<"{", "b", "}">>) @@ ("note" :> <<"n">>),
      ("ENTRYTYPE" :> <<"m">>) @@ ("title" :> <<"{", "a", "}">>) @@ ("author" :> <<"b">>),
      ("ENTRYTYPE" :> <<"m">>) @@ ("title" :> <<"a">>),
      ("ENTRYTYPE" :> <<"m">>) @@ ("title" :> <<"a">>) @@ ("author" :> <<"c">>)
        @@ ("year" :> <<"1">>) }

\* input files: up to MaxEntries entries with pairwise different citation keys
InputFiles ==
    UNION { { [n \in 1..len |-> ("ID" :> LocalID(n)) @@ bodies[n]] :
                bodies \in [1..len -> LocalBodies] } : len \in 0..MaxEntries }

NoRun == [old_entries |-> <<>>, updated_entries |-> <<>>, unchanged_ids |-> <<>>]

CmpIdle == c_old = EmptyDict /\ c_new = EmptyDict /\ c_diff = EmptyDict /\ c_pc = "idle"

MainStart(entries) ==
    /\ pc = "loop"
    /\ old_entries = entries
    /\ i = 0
    /\ updated_entries = <<>>
    /\ changed_ids = <<>>
    /\ unchanged_ids = <<>>
    /\ no_title_ids = <<>>
    /\ not_found_ids = <<>>
    /\ origin = <<>>
    /\ trace = <<>>

Init ==
    /\ run = 1
    /\ \E entries \in InputFiles : MainStart(entries)
    /\ output_file = <<>>
    /\ dblp = EmptyDict
    /\ first = NoRun
    /\ CmpIdle

\* ------------------------------------------------------------------ actions
Acc ==
    [changed_ids |-> changed_ids, unchanged_ids |-> unchanged_ids,
     no_title_ids |-> no_title_ids, not_found_ids |-> not_found_ids,
     updated_entries |-> updated_entries, origin |-> origin]

SetAcc(a) ==
    /\ changed_ids' = a.changed_ids
    /\ unchanged_ids' = a.unchanged_ids
    /\ no_title_ids' = a.no_title_ids
    /\ not_found_ids' = a.not_found_ids
    /\ updated_entries' = a.updated_entries
    /\ origin' = a.origin

\* one iteration of the for loop of main(): the lookup and the classification
LoopBody ==
    /\ pc = "loop"
    /\ i < Len(old_entries)
    /\ LET entry == old_entries[i + 1] IN
       IF no_title(entry)
       THEN /\ SetAcc(iteration(Acc, i + 1, entry, NotCalled))
            /\ trace' = Append(trace, [called |-> FALSE, resp |-> NoResponse,
                                       res |-> NotCalled])
            /\ i' = i + 1
            /\ UNCHANGED <<pc, dblp>>
       ELSE \E resp \in (IF entry["title"] \in DOMAIN dblp
                         THEN {dblp[entry["title"]]} ELSE Responses) :
              LET res == query_dblp(resp) IN
              /\ dblp' = (entry["title"] :> resp) @@ dblp
              /\ trace' = Append(trace, [called |-> TRUE, resp |-> resp, res |-> res])
              /\ IF res.raised
                 THEN /\ pc' = "aborted"
                      /\ UNCHANGED <<i, updated_entries, changed_ids, unchanged_ids,
                                     no_title_ids, not_found_ids, origin>>
                 ELSE /\ SetAcc(iteration(Acc, i + 1, entry, res))
                      /\ i' = i + 1
                      /\ UNCHANGED pc
    /\ UNCHANGED <<run, old_entries, output_file, first, cmp_vars>>

\* after the loop: the summary is logged and updated_entries is dumped
WriteOutput ==
    /\ pc = "loop"
    /\ i = Len(old_entries)
    /\ output_file' = updated_entries
    /\ pc' = "done"
    /\ UNCHANGED <<run, old_entries, i, updated_entries, changed_ids, unchanged_ids,
                   no_title_ids, not_found_ids, dblp, origin, trace, first, cmp_vars>>

\* the script is run again with the written file as --bib_file
Rerun ==
    /\ pc = "done"
    /\ run = 1
    /\ run' = 2
    /\ first' = [old_entries |-> old_entries, updated_entries |-> updated_entries,
                 unchanged_ids |-> unchanged_ids]
    /\ pc' = "loop"
    /\ old_entries' = output_file
    /\ i' = 0
    /\ SetAcc(EmptyAcc)
    /\ trace' = <<>>
    /\ UNCHANGED <<output_file, dblp, cmp_vars>>

Next == LoopBody \/ WriteOutput \/ Rerun

Spec == Init /\ [][Next]_vars

\* ------------------------------------------- compare_entries called on its own
Strings == UNION {[1..n -> Chars] : n \in 0..MaxLen}

CmpOldEntries ==
    {("ID" :> LocalID(1)) @@ ("ENTRYTYPE" :> <<"m">>)}
    \cup {("ID" :> LocalID(1)) @@ ("ENTRYTYPE" :> <<"m">>) @@ ("author" :> v) : v \in Strings}

CmpNewEntries ==
    {("ID" :> <<"d", "b">>) @@ ("ENTRYTYPE" :> <<"p">>) @@ ("author" :> v) : v \in Strings}

InitCmp ==
    /\ run = 1
    /\ pc = "idle"
    /\ old_entries = <<>>
    /\ i = 0
    /\ updated_entries = <<>>
    /\ changed_ids = <<>>
    /\ unchanged_ids = <<>>
    /\ no_title_ids = <<>>
    /\ not_found_ids = <<>>
    /\ origin = <<>>
    /\ trace = <<>>
    /\ output_file = <<>>
    /\ dblp = EmptyDict
    /\ first = NoRun
    /\ c_old \in CmpOldEntries
    /\ c_new \in CmpNewEntries
    /\ c_diff = EmptyDict
    /\ c_pc = "call"

\* diff = compare_entries(entry, new_entry)
Compare ==
    /\ c_pc = "call"
    /\ c_diff' = compare_entries(c_old, c_new)
    /\ c_pc' = "returned"
    /\ UNCHANGED <<c_old, c_new, main_vars>>

NextCmp == Compare

SpecCmp == InitCmp /\ [][NextCmp]_vars

\* ------------------------------------------------------- claims: vocabulary
Range(seq) == {seq[n] : n \in 1..Len(seq)}
Occurrences(seq, x) == Cardinality({n \in 1..Len(seq) : seq[n] = x})
IdsOf(entries) == {entries[n]["ID"] : n \in 1..Len(entries)}
Whitelist == {"author", "booktitle", "doi", "title", "year", "ID", "ENTRYTYPE"}

\* the output entries produced from input position n
EmittedFor(n) == {updated_entries[j] : j \in {m \in 1..Len(updated_entries) : origin[m] = n}}

\* a value without its surrounding braces and spaces, stated by positions:
\* what lies between the first and the last character that is neither
Kept(s) == {n \in 1..Len(s) : s[n] # "{" /\ s[n] # "}" /\ s[n] # " "}
Core(s) ==
    IF Kept(s) = {} THEN <<>>
    ELSE SubSeq(s, CHOOSE lo \in Kept(s) : \A n \in Kept(s) : lo <= n,
                   CHOOSE hi \in Kept(s) : \A n \in Kept(s) : hi >= n)

Restricted(rec) == [k \in (DOMAIN rec) \cap Whitelist |-> rec[k]]
WithId(rec, id) == [k \in (DOMAIN rec) \cup {"ID"} |-> IF k = "ID" THEN id ELSE rec[k]]
Differs(local, remote) ==
    \E k \in (DOMAIN remote) \ {"ID", "ENTRYTYPE"} :
        Core(IF k \in DOMAIN local THEN local[k] ELSE <<>>) # Core(remote[k])

\* C1: once the output file is written it has as many entries as the input
\* and the same set of IDs: no entry dropped, none duplicated.
C1_Completeness ==
    pc = "done" =>
        /\ Len(output_file) = Len(old_entries)
        /\ IdsOf(output_file) = IdsOf(old_entries)

\* C2: after every prefix of the loop, the ID of each processed entry occurs
\* exactly once over changed_ids, unchanged_ids, no_title_ids and
\* not_found_ids, and the four lists together hold exactly the processed IDs.
C2_Partition ==
    /\ \A n \in 1..i :
         Occurrences(changed_ids, old_entries[n]["ID"])
         + Occurrences(unchanged_ids, old_entries[n]["ID"])
         + Occurrences(no_title_ids, old_entries[n]["ID"])
         + Occurrences(not_found_ids, old_entries[n]["ID"]) = 1
    /\ Range(changed_ids) \cup Range(unchanged_ids) \cup Range(no_title_ids)
         \cup Range(not_found_ids) = {old_entries[n]["ID"] : n \in 1..i}

C2_Witness ==
    /\ pc = "done"
    /\ i = 3
    /\ changed_ids # <<>>
    /\ no_title_ids # <<>>
    /\ not_found_ids # <<>>

\* C3: every output entry carries the ID of the input entry it was produced
\* from, a replaced entry included, and no output ID is absent from the input.
C3_IdPreserved ==
    /\ \A j \in 1..Len(updated_entries) :
         /\ origin[j] \in 1..i
         /\ updated_entries[j]["ID"] = old_entries[origin[j]]["ID"]
    /\ pc = "done" => IdsOf(output_file) \subseteq IdsOf(old_entries)

C3_Witness ==
    /\ pc = "done"
    /\ \E j \in 1..Len(output_file) :
         /\ output_file[j]["ID"] \in Range(changed_ids)
         /\ trace[origin[j]].res.some
         /\ trace[origin[j]].res.rec["ID"] # old_entries[origin[j]]["ID"]

\* C4: every field name of an entry emitted as changed is in the whitelist,
\* whatever fields the remote record and the local entry carry.
C4_WhitelistContainment ==
    \A j \in 1..Len(updated_entries) :
        updated_entries[j]["ID"] \in Range(changed_ids) =>
            DOMAIN updated_entries[j] \subseteq Whitelist

C4_Witness ==
    \E j \in 1..Len(updated_entries) :
        /\ updated_entries[j]["ID"] \in Range(changed_ids)
        /\ "biburl" \in DOMAIN trace[origin[j]].res.rec
        /\ "note" \in DOMAIN old_entries[origin[j]]

\* C5: a lookup whose search request is answered "too many requests" on the
\* first 2 attempts and normally on the third returns the remote record.
C5_RetryThenSucceed ==
    \A n \in 1..Len(trace) :
        (trace[n].called /\ trace[n].resp.kind = "ok" /\ trace[n].resp.busy = 2) =>
            /\ trace[n].res.some
            /\ trace[n].res.rec = trace[n].resp.rec

\* C6: a failed lookup never aborts the run: query_dblp returns None, the
\* entry is classified not_found, the loop goes on to the entries after it,
\* and the run ends with the output file written.
FailedLookup(t) == t.called /\ t.resp.kind \in
    {"neterr", "badjson", "nohits", "status", "parsefail", "empty"}

C6_FailureNeverAborts ==
    /\ pc \in {"loop", "done"}
    /\ Len(trace) = i
    /\ \A n \in 1..Len(trace) :
         FailedLookup(trace[n]) =>
            /\ ~trace[n].res.raised
            /\ ~trace[n].res.some
            /\ old_entries[n]["ID"] \in Range(not_found_ids)
    /\ i \in 0..Len(old_entries)
    /\ pc = "done" => i = Len(old_entries) /\ output_file = updated_entries

C6_Witness ==
    /\ pc = "done"
    /\ Len(trace) = 3
    /\ FailedLookup(trace[1])
    /\ trace[1].resp.kind = "neterr"
    /\ trace[3].res.some
    /\ Len(output_file) > 0

\* C7: in a run on the first run's output, against the same remote answers,
\* every entry the first run classified unchanged is classified unchanged
\* again and emitted exactly as the first run emitted it.
C7_UnchangedIdempotent ==
    run = 2 =>
        \A n \in 1..i :
            old_entries[n]["ID"] \in Range(first.unchanged_ids) =>
                /\ old_entries[n]["ID"] \in Range(unchanged_ids)
                /\ EmittedFor(n) = {first.updated_entries[n]}

C7_Witness ==
    /\ run = 2
    /\ pc = "done"
    /\ \E n \in 1..Len(old_entries) :
         /\ old_entries[n]["ID"] \in Range(first.unchanged_ids)
         /\ "note" \in DOMAIN old_entries[n]
         /\ old_entries[n] \in Range(output_file)

\* C8: compare_entries records a diff for a field of the remote record other
\* than ID and ENTRYTYPE exactly when the local and the remote value differ
\* after their surrounding braces and spaces are removed, a field the local
\* entry lacks counting as the empty string.
C8_StripInsensitive ==
    c_pc = "returned" =>
        /\ DOMAIN c_diff \subseteq (DOMAIN c_new) \ {"ID", "ENTRYTYPE"}
        /\ \A k \in (DOMAIN c_new) \ {"ID", "ENTRYTYPE"} :
             k \in DOMAIN c_diff <=>
                Core(IF k \in DOMAIN c_old THEN c_old[k] ELSE <<>>) # Core(c_new[k])

C8_Witness ==
    /\ c_pc = "returned"
    /\ "author" \in DOMAIN c_old
    /\ c_old["author"] = <<"{", "a", "}">>
    /\ c_new["author"] = <<" ", "a", " ">>
    /\ c_diff = EmptyDict

\* C9: an entry without a title, or with an empty one, is not looked up, is
\* classified no_title and is emitted unchanged to the output sequence.
C9_NoTitleEmitted ==
    \A n \in 1..i :
        no_title(old_entries[n]) =>
            /\ ~trace[n].called
            /\ old_entries[n]["ID"] \in Range(no_title_ids)
            /\ EmittedFor(n) = {old_entries[n]}

\* C10: when the lookup returns a candidate, the entry is changed and the
\* whitelisted remote record with the local ID is emitted if the two differ
\* in a field other than ID and ENTRYTYPE; otherwise it is unchanged and the
\* local entry is emitted with all of its fields.
C10_ChangedIffDiff ==
    \A n \in 1..i :
        (trace[n].called /\ trace[n].res.some) =>
            LET local == old_entries[n]
                filtered == Restricted(trace[n].res.rec)
            IN IF Differs(local, filtered)
               THEN /\ local["ID"] \in Range(changed_ids)
                    /\ local["ID"] \notin Range(unchanged_ids)
                    /\ EmittedFor(n) = {WithId(filtered, local["ID"])}
               ELSE /\ local["ID"] \in Range(unchanged_ids)
                    /\ local["ID"] \notin Range(changed_ids)
                    /\ EmittedFor(n) = {local}

C10_Witness ==
    /\ \E n \in 1..i :
         /\ trace[n].res.some
         /\ old_entries[n]["ID"] \in Range(unchanged_ids)
         /\ "note" \in DOMAIN old_entries[n]
         /\ "author" \in DOMAIN old_entries[n]
         /\ "author" \in DOMAIN trace[n].res.rec
         /\ old_entries[n]["author"] # trace[n].res.rec["author"]
    /\ \E n \in 1..i :
         /\ trace[n].res.some
         /\ old_entries[n]["ID"] \in Range(changed_ids)

====
